---- MODULE Spec2Model ----
(***************************************************************************)
(* Model of src/src/utils/steam-library.ts: the Steam installation lookup, *)
(* the library-folder descriptor, the appmanifest scanner, the aggregator  *)
(* getInstalledSteamGames and the two presentation formatters.             *)
(*                                                                         *)
(* Representation.                                                         *)
(*  - A filesystem path is the sequence of its segments; path.join is the  *)
(*    concatenation of segment sequences.                                  *)
(*  - A text value (a name, a digit run) is the sequence of its            *)
(*    characters, so that "non-empty", "all digits", parseInt and          *)
(*    localeCompare are computed on the characters.                        *)
(*  - The text of a .vdf/.acf file is the sequence of its "key" "value"    *)
(*    pairs; a regular expression "key"\s+"(shape)" selects the first pair *)
(*    with that key whose value has the shape.                             *)
(*  - Whatever the program reads from outside (registry, disk) is drawn    *)
(*    when the read happens and kept in the variable that holds it.        *)
(***************************************************************************)
EXTENDS Integers, Sequences, FiniteSets, TLC

VARIABLES
    pc,            \* position in getInstalledSteamGames
    platform,      \* os.platform()
    queries,       \* registry queries made by getSteamPath so far, in order
    pathResult,    \* outcome of getSteamPath
    vdf,           \* what getSteamLibraryPaths read (descriptor file, disk)
    libraryPaths,  \* result of getSteamLibraryPaths
    dir,           \* what the parseAppManifests call under way read
    games,         \* what that call returned (games, line 177)
    scanned,       \* per library path scanned so far: how its steamapps
                   \* directory was found, and the games the scan returned
    allGames,      \* allGames of getInstalledSteamGames
    result,        \* outcome of getInstalledSteamGames
    bytes,         \* argument of formatFileSize (base-1024 digits)
    sizeText,      \* result of formatFileSize
    now,           \* Date.now(), as <<whole seconds, milliseconds>>
    timestamp,     \* argument of formatLastUpdated (epoch seconds)
    timeText       \* result of formatLastUpdated

scanVars == <<pc, platform, queries, pathResult, vdf, libraryPaths, dir,
              games, scanned, allGames, result>>
sizeVars == <<bytes, sizeText>>
timeVars == <<now, timestamp, timeText>>
vars == <<scanVars, sizeVars, timeVars>>

-----------------------------------------------------------------------------
(* Bounds of the model. *)

\* Most directory entries one steamapps listing holds.
MaxFiles == 2

\* Most "key" "value" pairs the descriptor file holds.
MaxVdfEntries == 1

\* Most base-1024 digits of a byte count given to formatFileSize.
MaxDigits == 6

\* Largest age, in days, of a timestamp given to formatLastUpdated.
MaxDays == 61

-----------------------------------------------------------------------------
(* Paths and text helpers. *)

\* PA and PB are directories; PX names a directory that is not on disk.
PA == <<"C:", "Steam">>
PB == <<"D:", "Games">>
PX == <<"E:", "Old">>

\* path.join: the segments of all arguments, in order.
Join(a, b) == a \o b

Digits == {"0", "1", "2", "3", "4", "5", "6", "7", "8", "9"}

DigitVal(c) ==
    CASE c = "0" -> 0 [] c = "1" -> 1 [] c = "2" -> 2 [] c = "3" -> 3
      [] c = "4" -> 4 [] c = "5" -> 5 [] c = "6" -> 6 [] c = "7" -> 7
      [] c = "8" -> 8 [] c = "9" -> 9

\* The shape \d+ : a non-empty run of digits.
IsDigitRun(s) == Len(s) > 0 /\ \A i \in 1..Len(s) : s[i] \in Digits

\* parseInt on a digit run (base 10, leading zeros allowed).
RECURSIVE ParseInt(_)
ParseInt(s) ==
    IF s = <<>> THEN 0
    ELSE 10 * ParseInt(SubSeq(s, 1, Len(s) - 1)) + DigitVal(s[Len(s)])

\* The shape [^"]+ : any non-empty value.
IsNonEmpty(s) == Len(s) > 0

Pair(k, v) == [key |-> k, value |-> v]

NoMatch == [found |-> FALSE, value |-> <<>>]

\* content.match(/"key"\s+"([^"]+)"/): the first pair with this key and a
\* non-empty value.
RECURSIVE MatchText(_, _)
MatchText(content, key) ==
    IF content = <<>> THEN NoMatch
    ELSE IF Head(content).key = key /\ IsNonEmpty(Head(content).value)
         THEN [found |-> TRUE, value |-> Head(content).value]
         ELSE MatchText(Tail(content), key)

\* content.match(/"key"\s+"(\d+)"/): the first pair with this key whose value
\* is a digit run.
RECURSIVE MatchDigits(_, _)
MatchDigits(content, key) ==
    IF content = <<>> THEN NoMatch
    ELSE IF Head(content).key = key /\ IsDigitRun(Head(content).value)
         THEN [found |-> TRUE, value |-> Head(content).value]
         ELSE MatchDigits(Tail(content), key)

\* All sequences of at most n elements of S.
RECURSIVE SeqsWithin(_, _)
SeqsWithin(S, n) ==
    IF n = 0 THEN {<<>>}
    ELSE LET shorter == SeqsWithin(S, n - 1)
         IN shorter \cup
            {Append(s, x) : s \in {t \in shorter : Len(t) = n - 1}, x \in S}
Range(s) == {s[i] : i \in 1..Len(s)}

-----------------------------------------------------------------------------
(* getSteamPath *)

Platforms == {"win32", "darwin"}

\* registryPaths, in the order of the loop.
registryPaths == <<"HKLM:\\SOFTWARE\\WOW6432Node\\Valve\\Steam",
                   "HKLM:\\SOFTWARE\\Valve\\Steam">>

Whitespace == {" ", "\r\n"}

\* String.prototype.trim on the output of the query, given as a sequence of
\* tokens: whitespace tokens are stripped at both ends.
RECURSIVE TrimStart(_)
TrimStart(s) ==
    IF s # <<>> /\ Head(s) \in Whitespace THEN TrimStart(Tail(s)) ELSE s

RECURSIVE TrimEnd(_)
TrimEnd(s) ==
    IF s # <<>> /\ s[Len(s)] \in Whitespace
    THEN TrimEnd(SubSeq(s, 1, Len(s) - 1))
    ELSE s

Trim(s) == TrimEnd(TrimStart(s))

\* What one registry query can give: the command fails, or it prints stdout.
Stdouts == {<<>>, <<"\r\n">>, PA \o <<"\r\n">>, <<" ">> \o PB \o <<"\r\n">>}

\* One query: [key] the registry path asked; [threw] execAsync rejected;
\* [stdout] what it printed; [exists] existsSync of the trimmed output.
Query(key, threw, stdout, exists) ==
    [key |-> key, threw |-> threw, stdout |-> stdout, exists |-> exists]

QueryOutcomes(key) ==
    {Query(key, TRUE, <<>>, FALSE)} \cup
    {Query(key, FALSE, s, e) : s \in Stdouts, e \in BOOLEAN}

\* Resolves without the existsSync test.
ResolvesWithoutDiskCheck(q) == ~q.threw /\ Trim(q.stdout) # <<>>

\* The test of line 44 on one query: steamPath && existsSync(steamPath).
Resolves(q) == ~q.threw /\ Trim(q.stdout) # <<>> /\ q.exists

NoResult == [kind |-> "pending", path |-> <<>>]
PathValue(p) == [kind |-> "path", path |-> p]
PathNull == [kind |-> "null", path |-> <<>>]
PathThrow == [kind |-> "throw", path |-> <<>>]

\* Lines 30-32: the platform test.
PlatformSupported(p) == p = "win32"

CheckPlatform ==
    /\ pc = "getSteamPath"
    /\ IF PlatformSupported(platform)
       THEN /\ pc' = "registry"
            /\ pathResult' = pathResult
       ELSE /\ pc' = "checkSteamPath"
            /\ pathResult' = PathThrow
    /\ UNCHANGED <<platform, queries, vdf, libraryPaths, dir, games, scanned,
                   allGames, result, sizeVars, timeVars>>

\* What the loop of lines 38-52 does after the query q, the Len(qs)+1-th one:
\* return its value, go on to the next key, or return null after the last.
AfterQuery(qs, q) ==
    IF Resolves(q) THEN PathValue(Trim(q.stdout))
    ELSE IF Len(qs) + 1 = Len(registryPaths) THEN PathNull
    ELSE NoResult

QueryRegistry ==
    /\ pc = "registry"
    /\ \E q \in QueryOutcomes(registryPaths[Len(queries) + 1]) :
          /\ queries' = Append(queries, q)
          /\ pathResult' = AfterQuery(queries, q)
          /\ pc' = IF AfterQuery(queries, q) = NoResult
                   THEN "registry" ELSE "checkSteamPath"
    /\ UNCHANGED <<platform, vdf, libraryPaths, dir, games, scanned,
                   allGames, result, sizeVars, timeVars>>

-----------------------------------------------------------------------------
(* getSteamLibraryPaths *)

\* What the call reads: [file] whether steamapps/libraryfolders.vdf is
\* missing, fails to be read, or is read; [content] its pairs; [onDisk] the
\* values for which existsSync is true.
VdfPairs == {Pair("path", PB), Pair("path", PX), Pair("path", <<>>),
             Pair("label", PB)}

VdfInput(file, content, onDisk) ==
    [file |-> file, content |-> content, onDisk |-> onDisk]

NoVdf == VdfInput("unread", <<>>, {})

\* The descriptor holds each pair at most once.
VdfContents ==
    {c \in SeqsWithin(VdfPairs, MaxVdfEntries) :
        \A i, j \in 1..Len(c) : c[i] = c[j] => i = j}

VdfInputs ==
    {VdfInput("missing", <<>>, {}), VdfInput("error", <<>>, {})} \cup
    {VdfInput("ok", c, d) : c \in VdfContents, d \in SUBSET {PB}}

\* content.match(/"path"\s+"([^"]+)"/g) and the loop of lines 76-81: the
\* values of the "path" pairs, in order, that are non-empty and exist.
RECURSIVE ExtractPaths(_, _)
ExtractPaths(content, onDisk) ==
    IF content = <<>> THEN <<>>
    ELSE LET p == Head(content)
             rest == ExtractPaths(Tail(content), onDisk)
         IN IF p.key = "path" /\ IsNonEmpty(p.value) /\ p.value \in onDisk
            THEN <<p.value>> \o rest
            ELSE rest

\* The values equal to the base path left out.
GetSteamLibraryPathsDistinct(steamPath, v) ==
    IF v.file \in {"missing", "error"} THEN <<steamPath>>
    ELSE <<steamPath>> \o
         SelectSeq(ExtractPaths(v.content, v.onDisk), LAMBDA q : q # steamPath)

GetSteamLibraryPaths(steamPath, v) ==
    CASE v.file = "missing" -> <<steamPath>>
      [] v.file = "error" -> <<steamPath>>
      [] OTHER -> <<steamPath>> \o ExtractPaths(v.content, v.onDisk)

\* getSteamLibraryPaths called on its own, on descriptors that may also name
\* the base path PA and may repeat a pair.
AnyVdfPairs == VdfPairs \cup {Pair("path", PA)}

AnyVdfInputs ==
    {VdfInput("missing", <<>>, {}), VdfInput("error", <<>>, {})} \cup
    {VdfInput("ok", c, d) :
        c \in SeqsWithin(AnyVdfPairs, MaxVdfEntries + 2),
        d \in SUBSET {PA, PB}}

CallGetSteamLibraryPaths ==
    /\ pc = "getSteamLibraryPaths"
    /\ libraryPaths' = GetSteamLibraryPaths(pathResult.path, vdf)
    /\ pc' = "libraryPaths"
    /\ UNCHANGED <<platform, queries, pathResult, vdf, dir, games, scanned,
                   allGames, result, sizeVars, timeVars>>

-----------------------------------------------------------------------------
(* parseAppManifests *)

Undefined == [defined |-> FALSE, value |-> 0]
Defined(n) == [defined |-> TRUE, value |-> n]

\* A directory entry of steamapps. Its name is prefix, id, suffix put
\* together; [read] tells whether the file is still there and readable when
\* the loop reaches it; [content] is its text.
File(prefix, id, suffix, read, content) ==
    [prefix |-> prefix, id |-> id, suffix |-> suffix, read |-> read,
     content |-> content]

FileName(f) == <<f.prefix, f.id, f.suffix>>

\* Line 103: file.startsWith("appmanifest_") && file.endsWith(".acf").
IsManifestName(f) == f.prefix = "appmanifest_" /\ f.suffix = ".acf"

\* Line 120: manifestFile.match(/appmanifest_(\d+)\.acf/).
AppidMatch(f) ==
    IF IsManifestName(f) /\ IsDigitRun(f.id)
    THEN [found |-> TRUE, value |-> f.id]
    ELSE NoMatch

\* IsReserved with the second identifier forgotten.
IsReservedSteamworksOnly(appid) == appid = 228980

\* Line 126: the identifiers that are skipped.
IsReserved(appid) == appid = 228980 \/ appid = 7

\* Line 139: join(libraryPath, "steamapps", "common", installdir).
InstallDir(libraryPath, installdir) ==
    Join(Join(libraryPath, <<"steamapps", "common">>), installdir)

\* Lines 136-143: the record built from the matches.
MakeGame(libraryPath, appid, content) ==
    LET sizeMatch == MatchDigits(content, "SizeOnDisk")
        lastUpdatedMatch == MatchDigits(content, "LastUpdated")
        stateMatch == MatchDigits(content, "StateFlags")
    IN [appid |-> appid,
        name |-> MatchText(content, "name").value,
        installDir |-> InstallDir(libraryPath,
                                  MatchText(content, "installdir").value),
        sizeOnDisk |-> IF sizeMatch.found THEN ParseInt(sizeMatch.value)
                       ELSE 0,
        lastUpdated |-> IF lastUpdatedMatch.found
                        THEN Defined(ParseInt(lastUpdatedMatch.value))
                        ELSE Undefined,
        state |-> IF stateMatch.found
                  THEN Defined(ParseInt(stateMatch.value))
                  ELSE Undefined]

\* HasRequired with the size demanded as well.
HasRequiredAndSize(content) ==
    /\ MatchText(content, "name").found
    /\ MatchText(content, "installdir").found
    /\ MatchDigits(content, "SizeOnDisk").found

\* Line 135: both required fields matched.
HasRequired(content) ==
    MatchText(content, "name").found /\ MatchText(content, "installdir").found

\* ParseManifest with the test of line 135 reduced to the name.
ParseManifestNameOnly(libraryPath, f) ==
    IF f.read # "ok" THEN <<>>
    ELSE IF ~AppidMatch(f).found THEN <<>>
    ELSE IF IsReserved(ParseInt(AppidMatch(f).value)) THEN <<>>
    ELSE IF MatchText(f.content, "name").found
         THEN <<MakeGame(libraryPath, ParseInt(AppidMatch(f).value), f.content)>>
         ELSE <<>>

\* Lines 108-149: one iteration of the loop over manifestFiles; the games it
\* pushes (none or one).
ParseManifest(libraryPath, f) ==
    IF f.read = "vanished" THEN <<>>          \* existsSync false: continue
    ELSE IF f.read = "error" THEN <<>>        \* readFile throws: catch, continue
    ELSE IF ~AppidMatch(f).found THEN <<>>
    ELSE IF IsReserved(ParseInt(AppidMatch(f).value)) THEN <<>>
    ELSE IF HasRequired(f.content)
         THEN <<MakeGame(libraryPath, ParseInt(AppidMatch(f).value), f.content)>>
         ELSE <<>>

\* Lines 103-150: filter, then the loop, in listing order.
RECURSIVE ParseFiles(_, _)
ParseFiles(libraryPath, files) ==
    IF files = <<>> THEN <<>>
    ELSE (IF IsManifestName(Head(files))
          THEN ParseManifest(libraryPath, Head(files))
          ELSE <<>>) \o ParseFiles(libraryPath, Tail(files))

\* What the call reads: [steamapps] whether libraryPath/steamapps is missing,
\* cannot be listed, or is listed; [files] the listing.
DirInput(steamapps, files) == [steamapps |-> steamapps, files |-> files]

NoDir == DirInput("unread", <<>>)

\* A manifest that cannot be read ends the scan in the outer catch.
ParseAppManifestsAbortOnReadError(libraryPath, d) ==
    IF d.steamapps \in {"missing", "error"} THEN <<>>
    ELSE IF \E k \in 1..Len(d.files) :
               IsManifestName(d.files[k]) /\ d.files[k].read = "error"
         THEN <<>>
         ELSE ParseFiles(libraryPath, d.files)

ParseAppManifests(libraryPath, d) ==
    CASE d.steamapps = "missing" -> <<>>
      [] d.steamapps = "error" -> <<>>
      [] OTHER -> ParseFiles(libraryPath, d.files)

\* The manifests the listings are made of. Names are sequences of characters;
\* an installdir value is given as its path segments.
Dota == <<"D", "o", "t", "a">>
dota == <<"d", "o", "t", "a">>
apex == <<"a", "p", "e", "x">>

FullText(name, installdir, size) ==
    <<Pair("name", name), Pair("installdir", installdir),
      Pair("SizeOnDisk", size), Pair("LastUpdated", <<"1", "0", "0">>),
      Pair("StateFlags", <<"4">>)>>

ManifestFiles ==
    { \* a complete manifest
      File("appmanifest_", <<"5", "7", "0">>, ".acf", "ok",
           FullText(Dota, <<"dota 2 beta">>, <<"1", "2">>)),
      \* the same identifier under another file name; optional fields
      \* malformed or empty
      File("appmanifest_", <<"0", "5", "7", "0">>, ".acf", "ok",
           <<Pair("name", apex), Pair("installdir", <<"apex">>),
             Pair("SizeOnDisk", <<"1", "2", "G", "B">>),
             Pair("StateFlags", <<>>)>>),
      \* the same name as 570; no optional field but the size
      File("appmanifest_", <<"3", "0">>, ".acf", "ok",
           <<Pair("installdir", <<"hl">>), Pair("name", Dota),
             Pair("SizeOnDisk", <<"5">>)>>),
      \* the two reserved identifiers, complete manifests
      File("appmanifest_", <<"7">>, ".acf", "ok",
           FullText(Dota, <<"steam">>, <<"1">>)),
      File("appmanifest_", <<"2", "2", "8", "9", "8", "0">>, ".acf", "ok",
           FullText(apex, <<"redist">>, <<"3">>)),
      \* a name that differs from Dota by case only
      File("appmanifest_", <<"4", "4", "0">>, ".acf", "ok",
           <<Pair("name", dota), Pair("installdir", <<"tf2">>),
             Pair("LastUpdated", <<"1", "0", "0">>),
             Pair("SizeOnDisk", <<"9">>)>>),
      \* a manifest that cannot be read
      File("appmanifest_", <<"6", "0">>, ".acf", "error",
           FullText(apex, <<"l4d">>, <<"9">>)),
      \* a manifest deleted between the listing and the read
      File("appmanifest_", <<"5", "0">>, ".acf", "vanished",
           FullText(apex, <<"gone">>, <<"9">>)),
      \* no "name"
      File("appmanifest_", <<"1", "0">>, ".acf", "ok",
           <<Pair("installdir", <<"cs">>), Pair("SizeOnDisk", <<"7">>),
             Pair("LastUpdated", <<"1", "0", "0">>)>>),
      \* "installdir" with an empty value: the pattern does not match
      File("appmanifest_", <<"2", "0">>, ".acf", "ok",
           <<Pair("name", apex), Pair("installdir", <<>>),
             Pair("SizeOnDisk", <<"7">>)>>),
      \* passes the filter of line 103, fails the pattern of line 120
      File("appmanifest_", <<"5", "7", "0", "_", "b", "a", "k">>, ".acf", "ok",
           FullText(Dota, <<"bak">>, <<"2">>)),
      \* not a manifest
      File("libraryfolders", <<>>, ".vdf", "ok", <<Pair("path", <<"D:">>)>>) }

\* All listings of at most n entries with pairwise distinct file names.
RECURSIVE Listings(_)
Listings(n) ==
    IF n = 0 THEN {<<>>}
    ELSE LET shorter == Listings(n - 1)
             Extend(s) ==
                 {Append(s, f) : f \in {g \in ManifestFiles :
                                           \A i \in 1..Len(s) :
                                              FileName(s[i]) # FileName(g)}}
         IN shorter \cup
            UNION {Extend(s) : s \in {t \in shorter : Len(t) = n - 1}}

DirInputs ==
    {DirInput("missing", <<>>), DirInput("error", <<>>)} \cup
    {DirInput("ok", l) : l \in Listings(MaxFiles)}

-----------------------------------------------------------------------------
(* getInstalledSteamGames *)

\* String.prototype.localeCompare on names over the letters below: letters
\* are compared without regard to case first; names equal up to case are
\* ordered by the first letter whose case differs, lower case first.
LowerCase == <<"a", "d", "e", "o", "p", "t", "x">>
UpperCase == <<"A", "D", "E", "O", "P", "T", "X">>

Primary(c) == CHOOSE i \in 1..Len(LowerCase) : LowerCase[i] = c \/ UpperCase[i] = c
IsUpper(c) == \E i \in 1..Len(UpperCase) : UpperCase[i] = c

RECURSIVE ComparePrimary(_, _)
ComparePrimary(a, b) ==
    IF a = <<>> /\ b = <<>> THEN 0
    ELSE IF a = <<>> THEN -1
    ELSE IF b = <<>> THEN 1
    ELSE IF Primary(Head(a)) < Primary(Head(b)) THEN -1
    ELSE IF Primary(Head(a)) > Primary(Head(b)) THEN 1
    ELSE ComparePrimary(Tail(a), Tail(b))

RECURSIVE CompareCase(_, _)
CompareCase(a, b) ==
    IF a = <<>> \/ b = <<>> THEN 0
    ELSE IF ~IsUpper(Head(a)) /\ IsUpper(Head(b)) THEN -1
    ELSE IF IsUpper(Head(a)) /\ ~IsUpper(Head(b)) THEN 1
    ELSE CompareCase(Tail(a), Tail(b))

LocaleCompare(a, b) ==
    IF ComparePrimary(a, b) # 0 THEN ComparePrimary(a, b)
    ELSE CompareCase(a, b)

\* self.findIndex((g) => g.appid === appid): the first index with this
\* appid (0 when there is none; the filter only asks for present ones).
FindIndex(list, appid) ==
    IF \E i \in 1..Len(list) : list[i].appid = appid
    THEN CHOOSE i \in 1..Len(list) :
            /\ list[i].appid = appid
            /\ \A j \in 1..(i - 1) : list[j].appid # appid
    ELSE 0

\* Deduplicate with the entry compared to its predecessor only: entries with
\* the same appid that are not adjacent are both kept.
DeduplicateAdjacent(list) ==
    LET kept == SelectSeq([i \in 1..Len(list) |-> <<i, list[i]>>],
                          LAMBDA e : e[1] = 1 \/ list[e[1] - 1].appid # e[2].appid)
    IN [k \in 1..Len(kept) |-> kept[k][2]]

\* Line 184: keep the entries that are the first with their appid.
RECURSIVE FilterFirst(_, _)
FilterFirst(list, n) ==
    IF n = 0 THEN <<>>
    ELSE FilterFirst(list, n - 1) \o
         (IF n = FindIndex(list, list[n].appid) THEN <<list[n]>> ELSE <<>>)

Deduplicate(list) == FilterFirst(list, Len(list))

\* The comparator of line 185.
CompareGames(a, b) == LocaleCompare(a.name, b.name)

\* InsertSorted putting an entry before the entries it compares equal to.
RECURSIVE InsertSortedBeforeEqual(_, _)
InsertSortedBeforeEqual(sorted, g) ==
    IF sorted = <<>> THEN <<g>>
    ELSE IF CompareGames(sorted[Len(sorted)], g) < 0 THEN Append(sorted, g)
    ELSE Append(InsertSortedBeforeEqual(SubSeq(sorted, 1, Len(sorted) - 1), g),
                sorted[Len(sorted)])

\* Array.prototype.sort is stable: an entry goes after every entry that
\* does not compare greater than it.
RECURSIVE InsertSorted(_, _)
InsertSorted(sorted, g) ==
    IF sorted = <<>> THEN <<g>>
    ELSE IF CompareGames(sorted[Len(sorted)], g) <= 0 THEN Append(sorted, g)
    ELSE Append(InsertSorted(SubSeq(sorted, 1, Len(sorted) - 1), g),
                sorted[Len(sorted)])

RECURSIVE SortByName(_)
SortByName(list) ==
    IF list = <<>> THEN <<>>
    ELSE InsertSorted(SortByName(SubSeq(list, 1, Len(list) - 1)),
                      list[Len(list)])

\* UniqueGames with the two steps swapped: sorted first, then filtered.
UniqueGamesSortedFirst(list) == Deduplicate(SortByName(list))

\* Lines 183-185.
UniqueGames(list) == SortByName(Deduplicate(list))

\* Line 187: reduce((sum, game) => sum + game.sizeOnDisk, 0).
RECURSIVE TotalSize(_)
TotalSize(list) ==
    IF list = <<>> THEN 0
    ELSE TotalSize(SubSeq(list, 1, Len(list) - 1)) + list[Len(list)].sizeOnDisk

\* Line 194.
GameCount(list) == Len(list)

Pending == [status |-> "pending", error |-> "", games |-> <<>>,
            totalSize |-> 0, gameCount |-> 0]

Thrown(e) == [status |-> "thrown", error |-> e, games |-> <<>>,
              totalSize |-> 0, gameCount |-> 0]

\* Lines 191-195.
LibraryInfo(uniqueGames) ==
    [status |-> "returned", error |-> "", games |-> uniqueGames,
     totalSize |-> TotalSize(uniqueGames), gameCount |-> GameCount(uniqueGames)]

\* CheckSteamPath without the test of line 165: null goes on as a path.
CheckSteamPathNoNullCheck ==
    /\ pc = "checkSteamPath"
    /\ IF pathResult.kind = "throw"
       THEN /\ result' = Thrown("Steam library browsing is only supported on Windows")
            /\ pc' = "thrown"
       ELSE /\ result' = result
            /\ pc' = "getSteamLibraryPaths"
    /\ UNCHANGED <<platform, queries, pathResult, vdf, libraryPaths, dir,
                   games, scanned, allGames, sizeVars, timeVars>>

\* Lines 164-167 and 196-199: what getSteamPath gave decides whether the
\* call goes on; an error thrown by getSteamPath is rethrown.
CheckSteamPath ==
    /\ pc = "checkSteamPath"
    /\ CASE pathResult.kind = "throw" ->
              /\ result' = Thrown("Steam library browsing is only supported on Windows")
              /\ pc' = "thrown"
         [] pathResult.kind = "null" ->
              /\ result' = Thrown("Steam installation not found")
              /\ pc' = "thrown"
         [] OTHER ->
              /\ result' = result
              /\ pc' = "getSteamLibraryPaths"
    /\ UNCHANGED <<platform, queries, pathResult, vdf, libraryPaths, dir,
                   games, scanned, allGames, sizeVars, timeVars>>

\* Line 170.
ReadLibraryFolders ==
    /\ pc = "getSteamLibraryPaths"
    /\ \E v \in VdfInputs :
          /\ vdf' = v
          /\ libraryPaths' = GetSteamLibraryPaths(pathResult.path, v)
    /\ queries' = <<>>
    /\ pc' = "scan"
    /\ UNCHANGED <<platform, pathResult, dir, games, scanned, allGames,
                   result, sizeVars, timeVars>>

\* Lines 175-177: the next library path is scanned.
ScanLibrary ==
    /\ pc = "scan"
    /\ Len(scanned) < Len(libraryPaths)
    /\ \E d \in DirInputs :
          /\ dir' = d
          /\ games' = ParseAppManifests(libraryPaths[Len(scanned) + 1], d)
    /\ vdf' = NoVdf
    /\ pc' = "push"
    /\ UNCHANGED <<platform, queries, pathResult, libraryPaths, scanned,
                   allGames, result, sizeVars, timeVars>>

\* Lines 178-180: allGames.push(...games), and the iteration ends.
PushGames ==
    /\ pc = "push"
    /\ allGames' = allGames \o games
    /\ scanned' = Append(scanned, [steamapps |-> dir.steamapps, games |-> games])
    /\ dir' = NoDir
    /\ games' = <<>>
    /\ pc' = "scan"
    /\ UNCHANGED <<platform, queries, pathResult, vdf, libraryPaths, result,
                   sizeVars, timeVars>>

\* Lines 182-195: after the loop.
Aggregate ==
    /\ pc = "scan"
    /\ Len(scanned) = Len(libraryPaths)
    /\ result' = LibraryInfo(UniqueGames(allGames))
    /\ pc' = "returned"
    /\ UNCHANGED <<platform, queries, pathResult, vdf, libraryPaths, dir,
                   games, scanned, allGames, sizeVars, timeVars>>

-----------------------------------------------------------------------------
(* formatFileSize *)

\* A byte count is the sequence of its base-1024 digits, most significant
\* first, without leading zeros; 0 is the empty sequence. The byte counts
\* drawn (ByteCounts) are those on which the floating-point logarithm and
\* division of the code give the exact results computed here.
Base == 1024

sizes == <<"B", "KB", "MB", "GB", "TB">>

\* Math.floor(Math.log(bytes) / Math.log(1024)) for bytes > 0.
UnitIndex(b) == Len(b) - 1

\* sizes[i], an index into a JavaScript array starting at 0; past the end
\* it is undefined, which string concatenation prints as "undefined".
UnitName(i) == IF i + 1 \in 1..Len(sizes) THEN sizes[i + 1] ELSE "undefined"

\* 100 times the fraction 0.d1 d2 ... (base 1024): <<integer part, digits of
\* the fraction that is left>>.
RECURSIVE TimesHundred(_)
TimesHundred(frac) ==
    IF frac = <<>> THEN <<0, <<>>>>
    ELSE LET low == TimesHundred(Tail(frac))
             t == 100 * Head(frac) + low[1]
         IN <<t \div Base, <<t % Base>> \o low[2]>>

\* Math.round((bytes / Math.pow(1024, i)) * 100): the scaled value in
\* hundredths, halves rounded up.
Hundredths(b) ==
    LET th == TimesHundred(Tail(b))
    IN 100 * Head(b) + th[1]
       + (IF th[2] # <<>> /\ 2 * Head(th[2]) >= Base THEN 1 ELSE 0)

\* Number-to-string of h / 100 for an integer h >= 0.
NumberText(h) ==
    LET whole == ToString(h \div 100)
        cents == h % 100
    IN IF cents = 0 THEN whole
       ELSE IF cents % 10 = 0 THEN whole \o "." \o ToString(cents \div 10)
       ELSE whole \o "." \o ToString(cents \div 10) \o ToString(cents % 10)

\* The result is given as the pieces that are concatenated.
FormatFileSize(b) ==
    IF b = <<>> THEN <<"0", " ", "B">>
    ELSE <<NumberText(Hundredths(b)), " ", UnitName(UnitIndex(b))>>

SizeDigits == {0, 1, 512, 1023}

\* An integer a number holds exactly: below 2^53 = 8 * 1024^5.
IsSafeInteger(b) == Len(b) <= 5 \/ (Len(b) = 6 /\ Head(b) < 8)

\* 1024^n - 1 for n >= 5, whose floating-point logarithm is that of 1024^n.
RoundsToPower(b) == Len(b) >= 5 /\ \A k \in 1..Len(b) : b[k] = Base - 1

ByteCounts ==
    {b \in SeqsWithin(SizeDigits, MaxDigits) :
        /\ b = <<>> \/ Head(b) # 0
        /\ IsSafeInteger(b)
        /\ ~RoundsToPower(b)}

NotFormatted == <<>>

CallFormatFileSize ==
    /\ sizeText = NotFormatted
    /\ sizeText' = FormatFileSize(bytes)
    /\ UNCHANGED <<scanVars, bytes, timeVars>>

-----------------------------------------------------------------------------
(* formatLastUpdated *)

SecondsPerDay == 24 * 60 * 60

\* Math.floor((Date.now() / 1000 - timestamp) / (24 * 60 * 60)) for an
\* integer timestamp: the milliseconds of now add less than a second to an
\* integer difference, and do not change the floor.
Days(n, ts) == (n[1] - ts) \div SecondsPerDay

\* Weeks up to and including 30 days.
FormatLastUpdatedWeeksThroughThirty(n, ts) ==
    LET days == Days(n, ts)
    IN IF days = 0 THEN "Today"
       ELSE IF days = 1 THEN "Yesterday"
       ELSE IF days < 7 THEN ToString(days) \o " days ago"
       ELSE IF days <= 30 THEN ToString(days \div 7) \o " weeks ago"
       ELSE ToString(days \div 30) \o " months ago"

\* The week count rounded up instead of down.
FormatLastUpdatedWeeksRoundedUp(n, ts) ==
    LET days == Days(n, ts)
    IN IF days = 0 THEN "Today"
       ELSE IF days = 1 THEN "Yesterday"
       ELSE IF days < 7 THEN ToString(days) \o " days ago"
       ELSE IF days < 30 THEN ToString((days + 6) \div 7) \o " weeks ago"
       ELSE ToString(days \div 30) \o " months ago"

FormatLastUpdated(n, ts) ==
    LET days == Days(n, ts)
    IN IF days = 0 THEN "Today"
       ELSE IF days = 1 THEN "Yesterday"
       ELSE IF days < 7 THEN ToString(days) \o " days ago"
       ELSE IF days < 30 THEN ToString(days \div 7) \o " weeks ago"
       ELSE ToString(days \div 30) \o " months ago"

\* The clock: a moment late enough for every age up to MaxDays.
NowSeconds == (MaxDays + 1) * SecondsPerDay
Clocks == {<<NowSeconds, ms>> : ms \in {0, 999}}

\* Timestamps: whole days before now, and one second and almost a day more;
\* one timestamp lies in the future.
Timestamps ==
    {NowSeconds - d * SecondsPerDay - off :
        d \in 0..MaxDays, off \in {0, 1, SecondsPerDay - 1}}
    \cup {NowSeconds + 1}

CallFormatLastUpdated ==
    /\ timeText = ""
    /\ timeText' = FormatLastUpdated(now, timestamp)
    /\ UNCHANGED <<scanVars, sizeVars, now, timestamp>>

Init ==
    /\ pc = "getSteamPath"
    /\ platform \in Platforms
    /\ queries = <<>>
    /\ pathResult = NoResult
    /\ vdf = NoVdf
    /\ libraryPaths = <<>>
    /\ dir = NoDir
    /\ games = <<>>
    /\ scanned = <<>>
    /\ allGames = <<>>
    /\ result = Pending
    /\ bytes = <<>>
    /\ sizeText = NotFormatted
    /\ now = <<0, 0>>
    /\ timestamp = 0
    /\ timeText = "Today"

Next ==
    \/ CheckPlatform
    \/ QueryRegistry
    \/ CheckSteamPath
    \/ ReadLibraryFolders
    \/ ScanLibrary
    \/ PushGames
    \/ Aggregate

Spec == Init /\ [][Next]_vars

\* The scanner at rest, for the specifications of the formatters.
ScanIdle ==
    /\ pc = "idle"
    /\ platform = "win32"
    /\ queries = <<>>
    /\ pathResult = NoResult
    /\ vdf = NoVdf
    /\ libraryPaths = <<>>
    /\ dir = NoDir
    /\ games = <<>>
    /\ scanned = <<>>
    /\ allGames = <<>>
    /\ result = Pending

\* getSteamLibraryPaths applied to every base path and every descriptor of
\* AnyVdfInputs.
InitLibraryPaths ==
    /\ pc = "getSteamLibraryPaths"
    /\ platform = "win32"
    /\ queries = <<>>
    /\ pathResult \in {PathValue(PA), PathValue(PB)}
    /\ vdf \in AnyVdfInputs
    /\ libraryPaths = <<>>
    /\ dir = NoDir
    /\ games = <<>>
    /\ scanned = <<>>
    /\ allGames = <<>>
    /\ result = Pending
    /\ bytes = <<>>
    /\ sizeText = NotFormatted
    /\ now = <<0, 0>>
    /\ timestamp = 0
    /\ timeText = "Today"

NextLibraryPaths == CallGetSteamLibraryPaths

SpecLibraryPaths == InitLibraryPaths /\ [][NextLibraryPaths]_vars

\* formatFileSize applied to every byte count of ByteCounts.
InitSize ==
    /\ ScanIdle
    /\ bytes \in ByteCounts
    /\ sizeText = NotFormatted
    /\ now = <<0, 0>>
    /\ timestamp = 0
    /\ timeText = "Today"

NextSize == CallFormatFileSize

SpecSize == InitSize /\ [][NextSize]_vars

\* formatLastUpdated applied to every timestamp of Timestamps.
InitTime ==
    /\ ScanIdle
    /\ bytes = <<>>
    /\ sizeText = <<"0", " ", "B">>
    /\ now \in Clocks
    /\ timestamp \in Timestamps
    /\ timeText = ""

NextTime == CallFormatLastUpdated

SpecTime == InitTime /\ [][NextTime]_vars

-----------------------------------------------------------------------------
(* Properties of getInstalledSteamGames and parseAppManifests (Spec). *)

Returned == result.status = "returned"

\* The sum of sizeOnDisk over a sequence of games, front to back.
RECURSIVE SumOfSizes(_)
SumOfSizes(list) ==
    IF list = <<>> THEN 0 ELSE Head(list).sizeOnDisk + SumOfSizes(Tail(list))

\* C1: whenever getInstalledSteamGames returns, gameCount is the length of
\* games, totalSize is the sum of sizeOnDisk over games, and no two entries
\* of games have the same appid.
C1_ResultInvariant ==
    Returned =>
        /\ result.gameCount = Len(result.games)
        /\ result.totalSize = SumOfSizes(result.games)
        /\ \A i, j \in 1..Len(result.games) :
              result.games[i].appid = result.games[j].appid => i = j

\* C1 witness: a result of several games with a positive total, for which a
\* duplicate that was not next to its first occurrence has been dropped.
C1_Witness ==
    /\ Returned
    /\ result.gameCount >= 2
    /\ result.totalSize > 0
    /\ \E i, j \in 1..Len(allGames) :
          i + 1 < j /\ allGames[i].appid = allGames[j].appid

\* The library paths (by position) whose scan produced a game with this appid.
Producers(appid) ==
    {i \in 1..Len(scanned) :
        \E k \in 1..Len(scanned[i].games) : scanned[i].games[k].appid = appid}

Earliest(S) == CHOOSE i \in S : \A j \in S : i <= j

\* The first record with this appid in a sequence of games.
FirstWith(list, appid) ==
    list[CHOOSE k \in 1..Len(list) :
            /\ list[k].appid = appid
            /\ \A m \in 1..(k - 1) : list[m].appid # appid]

IsPrefix(p, q) == Len(p) <= Len(q) /\ SubSeq(q, 1, Len(p)) = p

\* C2: when manifests of more than one library path produce the same appid,
\* the result holds exactly one record with that appid, it is the record of
\* the earliest such library path in the order of libraryPaths, and its
\* installDir lies under that library path.
C2_EarliestLibraryWins ==
    Returned =>
        \A a \in {allGames[k].appid : k \in 1..Len(allGames)} :
            Cardinality(Producers(a)) > 1 =>
                LET first == Earliest(Producers(a))
                    kept == {k \in 1..Len(result.games) : result.games[k].appid = a}
                IN /\ Cardinality(kept) = 1
                   /\ \A k \in kept :
                         /\ result.games[k] = FirstWith(scanned[first].games, a)
                         /\ IsPrefix(Join(libraryPaths[first], <<"steamapps">>),
                                     result.games[k].installDir)

\* C2 witness: two different library paths produce the same appid, and the
\* record of the later one has the name that sorts first.
C2_Witness ==
    /\ Returned
    /\ Len(libraryPaths) = 2
    /\ libraryPaths[1] # libraryPaths[2]
    /\ \E k \in 1..Len(scanned[1].games), m \in 1..Len(scanned[2].games) :
          /\ scanned[1].games[k].appid = scanned[2].games[m].appid
          /\ LocaleCompare(scanned[2].games[m].name, scanned[1].games[k].name) < 0

Reserved == {228980, 7}

\* C3: no game returned by parseAppManifests or by getInstalledSteamGames,
\* and none collected on the way, has a reserved appid.
C3_ReservedNeverListed ==
    /\ \A k \in 1..Len(games) : games[k].appid \notin Reserved
    /\ \A k \in 1..Len(allGames) : allGames[k].appid \notin Reserved
    /\ \A k \in 1..Len(result.games) : result.games[k].appid \notin Reserved

\* C3 witness: parseAppManifests has scanned a listing that holds a readable,
\* complete manifest of each reserved identifier.
C3_Witness ==
    /\ pc = "push"
    /\ \A r \in Reserved :
          \E k \in 1..Len(dir.files) :
             /\ dir.files[k].read = "ok"
             /\ IsManifestName(dir.files[k])
             /\ IsDigitRun(dir.files[k].id)
             /\ ParseInt(dir.files[k].id) = r
             /\ \E p \in Range(dir.files[k].content) :
                   p.key = "name" /\ p.value # <<>>
             /\ \E p \in Range(dir.files[k].content) :
                   p.key = "installdir" /\ p.value # <<>>

\* The library path whose scan has just returned.
CurrentLibrary == libraryPaths[Len(scanned) + 1]

Scanning == pc = "push" /\ dir.steamapps = "ok"

\* The text holds a "key" "value" pair with this key and a value.
HasField(content, key) == \E p \in Range(content) : p.key = key /\ p.value # <<>>

\* The value of the first such pair.
FieldValue(content, key) ==
    content[CHOOSE k \in 1..Len(content) :
               /\ content[k].key = key /\ content[k].value # <<>>
               /\ \A m \in 1..(k - 1) :
                     ~(content[m].key = key /\ content[m].value # <<>>)].value

\* The text holds this key with a digit run as value.
HasNumber(content, key) ==
    \E p \in Range(content) : p.key = key /\ IsDigitRun(p.value)

NumberValue(content, key) ==
    ParseInt(content[CHOOSE k \in 1..Len(content) :
                        /\ content[k].key = key /\ IsDigitRun(content[k].value)
                        /\ \A m \in 1..(k - 1) :
                              ~(content[m].key = key /\ IsDigitRun(content[m].value))].value)

\* A readable file named appmanifest_<digits>.acf.
ReadableManifest(f) ==
    /\ f.read = "ok"
    /\ f.prefix = "appmanifest_" /\ f.suffix = ".acf"
    /\ IsDigitRun(f.id)

\* The files C4 is about.
Qualifies(f) ==
    /\ ReadableManifest(f)
    /\ ParseInt(f.id) \notin Reserved
    /\ HasField(f.content, "name")
    /\ HasField(f.content, "installdir")

\* How many of the first i files qualify.
Rank(files, i) == Cardinality({k \in 1..i : Qualifies(files[k])})

\* C4: every readable manifest appmanifest_<digits>.acf with a non-reserved
\* id and both a name and an installdir yields exactly one application (the
\* games are as many as such files, in listing order); its appid is the digit
\* run of the file name, its installDir is libraryPath/steamapps/common/
\* <installdir>; SizeOnDisk absent or malformed gives 0, and LastUpdated and
\* StateFlags absent or malformed give undefined.
C4_ManifestYieldsOneGame ==
    Scanning =>
        /\ Len(games) = Rank(dir.files, Len(dir.files))
        /\ \A i \in 1..Len(dir.files) :
              Qualifies(dir.files[i]) =>
                  LET f == dir.files[i]
                      g == games[Rank(dir.files, i)]
                  IN /\ g.appid = ParseInt(f.id)
                     /\ g.name = FieldValue(f.content, "name")
                     /\ g.installDir =
                           CurrentLibrary \o <<"steamapps", "common">>
                              \o FieldValue(f.content, "installdir")
                     /\ g.sizeOnDisk =
                           IF HasNumber(f.content, "SizeOnDisk")
                           THEN NumberValue(f.content, "SizeOnDisk") ELSE 0
                     /\ g.lastUpdated.defined = HasNumber(f.content, "LastUpdated")
                     /\ g.lastUpdated.defined =>
                           g.lastUpdated.value = NumberValue(f.content, "LastUpdated")
                     /\ g.state.defined = HasNumber(f.content, "StateFlags")
                     /\ g.state.defined =>
                           g.state.value = NumberValue(f.content, "StateFlags")

\* C4 witness: a scanned listing holds such a file whose SizeOnDisk and
\* StateFlags are malformed and whose LastUpdated is absent, next to another
\* such file.
C4_Witness ==
    /\ Scanning
    /\ Len(games) = 2
    /\ \E i \in 1..Len(dir.files) :
          LET c == dir.files[i].content
          IN /\ Qualifies(dir.files[i])
             /\ \E p \in Range(c) : p.key = "SizeOnDisk" /\ ~IsDigitRun(p.value)
             /\ \E p \in Range(c) : p.key = "StateFlags" /\ ~IsDigitRun(p.value)
             /\ \A p \in Range(c) : p.key # "LastUpdated"

\* A sequence without its i-th element.
Without(s, i) == SubSeq(s, 1, i - 1) \o SubSeq(s, i + 1, Len(s))

\* A readable manifest without a name or without an installdir.
LacksRequired(f) ==
    /\ ReadableManifest(f)
    /\ ~HasField(f.content, "name") \/ ~HasField(f.content, "installdir")

\* C5: a manifest whose text lacks the name or the installdir yields no
\* application and does not disturb the scan: the games are those of the
\* same listing without that file.
C5_MissingRequiredFieldSkipsFile ==
    Scanning =>
        \A i \in 1..Len(dir.files) :
            LacksRequired(dir.files[i]) =>
                games = ParseAppManifests(CurrentLibrary,
                                          DirInput("ok", Without(dir.files, i)))

\* C5 witness: a manifest without a required field but with other fields is
\* listed before a manifest that yields a game.
C5_Witness ==
    /\ Scanning
    /\ Len(dir.files) = 2
    /\ LacksRequired(dir.files[1])
    /\ HasNumber(dir.files[1].content, "SizeOnDisk")
    /\ Qualifies(dir.files[2])
    /\ Len(games) = 1

\* The call is at a place from which it takes its next step whatever it
\* reads: the descriptor is about to be read, a library path is about to be
\* scanned, its games are about to be pushed, or the loop is over.
GoesOn ==
    \/ pc = "getSteamLibraryPaths"
    \/ pc = "scan" /\ Len(scanned) <= Len(libraryPaths)
    \/ pc = "push" /\ Len(scanned) < Len(libraryPaths)

\* C6: getInstalledSteamGames throws exactly when getSteamPath gave no path;
\* with a path it runs on to its return whatever fails to be read, and a
\* missing or unreadable descriptor, a missing or unlistable steamapps
\* directory and an unreadable manifest each remove only their own
\* contribution.
C6_ThrowsOnlyWithoutBasePath ==
    /\ result.status = "thrown" => pathResult.kind \in {"null", "throw"}
    /\ (pathResult.kind \in {"null", "throw"} /\ pc # "checkSteamPath")
          => result.status = "thrown"
    /\ (pathResult.kind = "path" /\ pc # "checkSteamPath")
          => \/ result.status = "returned"
             \/ result.status = "pending" /\ GoesOn
    /\ vdf.file \in {"missing", "error"} => libraryPaths = <<pathResult.path>>
    /\ (pc = "push" /\ dir.steamapps \in {"missing", "error"}) => games = <<>>
    /\ Scanning =>
          \A i \in 1..Len(dir.files) :
              dir.files[i].read # "ok" =>
                  games = ParseAppManifests(CurrentLibrary,
                                            DirInput("ok", Without(dir.files, i)))
    /\ Returned =>
          /\ Len(scanned) = Len(libraryPaths)
          /\ \A a \in {allGames[k].appid : k \in 1..Len(allGames)} :
                \E k \in 1..Len(result.games) : result.games[k].appid = a

\* C6 witness: a result with games is returned although the steamapps
\* directory of the base path could not be listed.
C6_Witness ==
    /\ Returned
    /\ result.gameCount > 0
    /\ scanned[1].steamapps = "error"

-----------------------------------------------------------------------------
(* Properties of getSteamPath (Spec). *)

\* The query succeeded with a non-empty string that exists on disk.
Yields(q) == ~q.threw /\ Trim(q.stdout) # <<>> /\ q.exists

\* On a supported platform: the keys are asked in the order WOW6432Node,
\* native; the value of the first query that yields is returned, and no
\* later key is asked; when none yields both keys have been asked, a first
\* query that fails included, and null is returned.
RegistryLookup ==
    /\ pathResult.kind # "throw"
    /\ Len(queries) <= 2
    /\ \A i \in 1..Len(queries) :
          queries[i].key = <<"HKLM:\\SOFTWARE\\WOW6432Node\\Valve\\Steam",
                             "HKLM:\\SOFTWARE\\Valve\\Steam">>[i]
    /\ IF \E i \in 1..Len(queries) : Yields(queries[i])
       THEN LET first == CHOOSE i \in 1..Len(queries) :
                            /\ Yields(queries[i])
                            /\ \A j \in 1..(i - 1) : ~Yields(queries[j])
            IN /\ pathResult = [kind |-> "path", path |-> Trim(queries[first].stdout)]
               /\ Len(queries) = first
       ELSE /\ pathResult.kind = "null"
            /\ Len(queries) = 2

GetSteamPathDone == pc = "checkSteamPath"

\* C7 as stated: getSteamPath never throws; on an unsupported platform it
\* returns null, and on a supported one it does the registry lookup.
C7_NeverThrows ==
    GetSteamPathDone =>
        IF platform = "win32" THEN RegistryLookup
        ELSE pathResult.kind = "null"

\* C7, amended: on an unsupported platform getSteamPath throws without asking
\* the registry; on a supported platform it never throws and does the
\* registry lookup.
C7_ThrowsOnlyOnUnsupportedPlatform ==
    GetSteamPathDone =>
        IF platform = "win32" THEN RegistryLookup
        ELSE pathResult.kind = "throw" /\ queries = <<>>

\* C7 witness: the query of the first key failed, the second key was asked,
\* its value was found on disk and returned.
C7_Witness ==
    /\ GetSteamPathDone
    /\ Len(queries) = 2
    /\ queries[1].threw
    /\ pathResult.kind = "path"
    /\ pathResult.path = PB

-----------------------------------------------------------------------------
(* The order of the games returned (Spec). *)

\* The place of the first record with this appid in allGames.
FirstPlace(appid) ==
    CHOOSE k \in 1..Len(allGames) :
        /\ allGames[k].appid = appid
        /\ \A m \in 1..(k - 1) : allGames[m].appid # appid

\* C8: in the games returned no entry's name compares greater than the name
\* of the next entry, and entries whose names compare equal are in the order
\* they had after deduplication.
C8_SortedByNameStable ==
    Returned =>
        /\ \A i \in 1..(Len(result.games) - 1) :
              LocaleCompare(result.games[i].name, result.games[i + 1].name) <= 0
        /\ \A i, j \in 1..Len(result.games) :
              (i < j /\ LocaleCompare(result.games[i].name, result.games[j].name) = 0)
                 => FirstPlace(result.games[i].appid) < FirstPlace(result.games[j].appid)

\* C8 witness: the sort has moved an entry forward past two entries of equal
\* name, which kept their order.
C8_Witness ==
    /\ Returned
    /\ Len(result.games) = 3
    /\ LocaleCompare(result.games[2].name, result.games[3].name) = 0
    /\ FirstPlace(result.games[1].appid) > FirstPlace(result.games[3].appid)

-----------------------------------------------------------------------------
(* Properties of formatLastUpdated (SpecTime). *)

Formatted == timeText # ""

\* The timestamp lies this many whole days before now.
DaysAgo(d) == timestamp = now[1] - d * SecondsPerDay

\* C9 as stated: a timestamp equal to now gives "Today", one 10 days in the
\* past gives "10 days ago", one 40 days in the past gives "1 months ago".
C9_TenDaysAsDays ==
    Formatted =>
        /\ DaysAgo(0) => timeText = "Today"
        /\ DaysAgo(10) => timeText = "10 days ago"
        /\ DaysAgo(40) => timeText = "1 months ago"

\* C9, amended: a timestamp equal to now gives "Today", one 10 days in the
\* past gives "1 weeks ago", one 40 days in the past gives "1 months ago".
C9_TenDaysAsWeeks ==
    Formatted =>
        /\ DaysAgo(0) => timeText = "Today"
        /\ DaysAgo(10) => timeText = "1 weeks ago"
        /\ DaysAgo(40) => timeText = "1 months ago"

\* C9 witness: a timestamp 10 days in the past has been formatted.
C9_Witness == Formatted /\ DaysAgo(10)

-----------------------------------------------------------------------------
(* Properties of formatFileSize (SpecSize). *)

\* C10: for every byte count the unit of the output is one of sizes, also
\* for counts of 1024^5 and above, where the index is clamped to the last
\* entry of the table; 0 bytes gives "0 B".
C10_UnitWithinTable ==
    sizeText # NotFormatted =>
        /\ sizeText[3] \in Range(sizes)
        /\ Len(bytes) > Len(sizes) => sizeText[3] = sizes[Len(sizes)]
        /\ bytes = <<>> => sizeText = <<"0", " ", "B">>

-----------------------------------------------------------------------------
(* Properties of getSteamLibraryPaths (SpecLibraryPaths). *)

LibraryPathsReturned == pc = "libraryPaths"

\* The values of the "path" pairs of the descriptor that exist on disk, in
\* descriptor order.
ExistingPathValues ==
    LET kept == SelectSeq(vdf.content,
                          LAMBDA p : p.key = "path" /\ p.value \in vdf.onDisk)
    IN [k \in 1..Len(kept) |-> kept[k].value]

\* C11: getSteamLibraryPaths(basePath) returns a sequence that starts with
\* basePath: exactly <<basePath>> when the descriptor is missing or cannot be
\* read, and otherwise basePath followed by every "path" value of the
\* descriptor that exists on disk, in descriptor order, values that do not
\* exist left out and duplicates, basePath included, kept.
C11_BasePathThenExistingPaths ==
    LibraryPathsReturned =>
        /\ Len(libraryPaths) >= 1
        /\ libraryPaths[1] = pathResult.path
        /\ vdf.file \in {"missing", "error"} => libraryPaths = <<pathResult.path>>
        /\ vdf.file = "ok" =>
              libraryPaths = <<pathResult.path>> \o ExistingPathValues

\* C11 witness: the descriptor names the base path, a path that does not
\* exist and another library, and the result holds the base path twice.
C11_Witness ==
    /\ LibraryPathsReturned
    /\ Len(libraryPaths) = 3
    /\ libraryPaths[2] = libraryPaths[1]
    /\ libraryPaths[3] # libraryPaths[1]
    /\ \E p \in Range(vdf.content) :
          p.key = "path" /\ p.value # <<>> /\ p.value \notin vdf.onDisk

-----------------------------------------------------------------------------
(* Read failures in parseAppManifests (Spec). *)

\* A manifest file that is listed but cannot be read.
FailsToRead(f) == IsManifestName(f) /\ f.read # "ok"

\* The installDir a game made from this file would have.
InstallDirOf(f) ==
    CurrentLibrary \o <<"steamapps", "common">> \o FieldValue(f.content, "installdir")

\* C12: a manifest that cannot be read is skipped alone: every other
\* manifest of the listing, before or after it, with both required fields
\* still contributes its application, and the unreadable one contributes
\* none; the library path contributes nothing as a whole only when its
\* steamapps directory is missing or cannot be listed.
C12_ReadFailureSkipsOnlyThatFile ==
    pc = "push" =>
        /\ dir.steamapps \in {"missing", "error"} => games = <<>>
        /\ dir.steamapps = "ok" =>
              /\ \A i, j \in 1..Len(dir.files) :
                    (FailsToRead(dir.files[i]) /\ j # i /\ Qualifies(dir.files[j]))
                       => \E k \in 1..Len(games) :
                             /\ games[k].appid = ParseInt(dir.files[j].id)
                             /\ games[k].installDir = InstallDirOf(dir.files[j])
              /\ \A i \in 1..Len(dir.files) :
                    FailsToRead(dir.files[i])
                       => \A k \in 1..Len(games) :
                             games[k].installDir # InstallDirOf(dir.files[i])
              /\ (\E j \in 1..Len(dir.files) : Qualifies(dir.files[j]))
                    => games # <<>>

\* C12 witness: the read of the first manifest of a listing threw, and the
\* manifest listed after it gave its game.
C12_Witness ==
    /\ Scanning
    /\ Len(dir.files) = 2
    /\ dir.files[1].read = "error"
    /\ IsManifestName(dir.files[1])
    /\ Qualifies(dir.files[2])
    /\ Len(games) = 1
    /\ games[1].appid = ParseInt(dir.files[2].id)

-----------------------------------------------------------------------------
(* The ranges of formatLastUpdated (SpecTime). *)

\* The whole-day difference d between now and the timestamp: the timestamp
\* lies at least d and less than d + 1 days before now.
WholeDays ==
    CHOOSE d \in -1..(MaxDays + 1) :
        /\ d * SecondsPerDay <= now[1] - timestamp
        /\ now[1] - timestamp < (d + 1) * SecondsPerDay

\* floor(d / m) for d >= 0.
Floor(d, m) == CHOOSE q \in 0..d : q * m <= d /\ d < (q + 1) * m

\* C13: for a whole-day difference d >= 0 formatLastUpdated returns "Today"
\* when d = 0, "Yesterday" when d = 1, "<d> days ago" when 2 <= d <= 6,
\* "<floor(d/7)> weeks ago" when 7 <= d <= 29 and "<floor(d/30)> months ago"
\* when d >= 30.
C13_RelativeTimeRanges ==
    (Formatted /\ WholeDays >= 0) =>
        LET d == WholeDays
        IN /\ d = 0 => timeText = "Today"
           /\ d = 1 => timeText = "Yesterday"
           /\ (2 <= d /\ d <= 6) => timeText = ToString(d) \o " days ago"
           /\ (7 <= d /\ d <= 29) =>
                 timeText = ToString(Floor(d, 7)) \o " weeks ago"
           /\ d >= 30 => timeText = ToString(Floor(d, 30)) \o " months ago"

\* C13 witness: a timestamp one second short of 61 days before now, with a
\* clock 999 ms past the second, has been formatted as two months.
C13_Witness ==
    /\ Formatted
    /\ WholeDays = 60
    /\ now[1] - timestamp = 61 * SecondsPerDay - 1
    /\ now[2] = 999
    /\ timeText = "2 months ago"

=============================================================================
